---- MODULE Spec2Model ----
(***************************************************************************)
(* Workflow execution engine of textanalyze: WorkflowNode (execute,        *)
(* get_next_node), WorkflowPipeline (run, _trigger_hooks) and the batch    *)
(* orchestrator TextFactorAnalyzer.analyze_batch.                          *)
(***************************************************************************)
EXTENDS Integers, Sequences, FiniteSets, TLC

VARIABLES
    nodes,          \* WorkflowPipeline.nodes: name -> WorkflowNode
    start_node,     \* WorkflowPipeline.start_node
    hooks,          \* WorkflowPipeline.hooks: event -> list of callbacks
    call,           \* the last call of register or set_start and its outcome
    pc,             \* position of the thread inside WorkflowPipeline.run
    current_node,   \* run: local current_node
    context,        \* run: the context dict handed to run
    execution_log,  \* run: local execution_log
    final_node,     \* run: local final_node
    error_msg,      \* run: local error_msg
    record,         \* run: local record (ExecutionRecord of the iteration)
    result,         \* run: local result (NodeResult of the iteration)
    ret,            \* run: the PipelineResult returned
    handler,        \* behaviour of the handler during the current execute call
    invocations,    \* number of handler calls made by the current execute call
    pre_context,    \* the context as it was handed to the current execute call
    fired,          \* event -> number of callbacks invoked in this run
    handled,        \* number of times the except clause of run was entered
    exc,            \* str(e) of the exception in flight inside run, or None
    hook_failed,    \* a hook exception was caught and printed during this run
    executed,       \* number of node.execute calls made by this run
    twin_context,   \* context of the same run on a pipeline without hooks
    twin_node,      \* current_node of the same run on a pipeline without hooks
    merged_data,    \* result.data of the last result run has merged
    news_items,     \* analyze_batch: the items, each by how its processing ends
    parallel,       \* analyze_batch: argument parallel
    max_workers,    \* analyze_batch: argument max_workers
    bpc,            \* position of the main thread inside analyze_batch
    queue,          \* ThreadPoolExecutor: submitted tasks no worker has taken
    worker,         \* ThreadPoolExecutor: worker thread -> item it runs, or 0
    future,         \* item -> state of its Future
    tallied,        \* items whose future the as_completed loop has consumed
    success_count,  \* analyze_batch: local success_count
    fail_count,     \* analyze_batch: local fail_count
    serial_idx,     \* analyze_batch: items the serial loop has processed
    daily_results,  \* TextFactorAnalyzer.daily_results (items, by index)
    runs,           \* item -> number of times its processing was started
    item_context,   \* item -> items held by the context its run was handed
    reported,       \* analyze_batch has printed the tally (line 315)
    tpc,            \* thread -> its position inside _process_single_item
    titem,          \* thread -> news_id of the item it processes
    tctx,           \* context dict of each call -> threads that wrote into it
    tlog,           \* execution_log of each call -> threads that appended to it
    texisting,      \* thread -> what the query of save_event found
    tsaved,         \* thread -> how its save_event call ended
    store,          \* news_id -> number of rows of text_factor_events
    lock,           \* threading.Lock -> the thread that holds it, or 0
    collected,      \* daily_results as appended by the threads
    rpc,            \* concurrent run call -> its position inside run
    rst,            \* concurrent run call -> its locals
    rret,           \* concurrent run call -> the PipelineResult it returned
    rplan,          \* concurrent run call -> what its handlers do
    overlapped      \* a run call executed a node while another was under way

engine_vars == <<nodes, start_node, hooks, call, pc, current_node, context,
                 execution_log, final_node, error_msg, record, result, ret,
                 handler, invocations, pre_context, fired, handled, exc,
                 hook_failed, executed, twin_context, twin_node, merged_data>>

batch_vars == <<news_items, parallel, max_workers, bpc, queue, worker, future,
                tallied, success_count, fail_count, serial_idx, daily_results,
                runs, item_context, reported>>

conc_vars == <<tpc, titem, tctx, tlog, texisting, tsaved, store, lock, collected>>

shared_vars == <<rpc, rst, rret, rplan, overlapped>>

\* the locals of one run call: engine_vars without the pipeline object
run_locals == <<pc, current_node, context, execution_log, final_node, error_msg,
                record, result, ret, handler, invocations, pre_context, fired,
                handled, exc, hook_failed, executed, twin_context, twin_node,
                merged_data>>

vars == <<engine_vars, batch_vars, conc_vars, shared_vars>>

----------------------------------------------------------------------------
(* Bounds *)

MaxRetry == 2       \* largest retry_count of a node of the graphs explored
MaxSteps == 3       \* nodes executed by one run before exploration stops
MaxHooks == 2       \* callbacks registered per hook event
NumItems == 3       \* largest number of items of a batch
MaxWorkers == 2     \* largest max_workers of a batch

----------------------------------------------------------------------------
(* Values *)

None == "None"                       \* Python None
Absent == "<absent>"                 \* a key that is not in a dict

PENDING == "pending"
RUNNING == "running"
SUCCESS == "success"
FAILED  == "failed"
SKIPPED == "skipped"
NodeStatus == {PENDING, RUNNING, SUCCESS, FAILED, SKIPPED}

Keys == {"ok", "k", "content", "is_oil_related", "status", "factor_value",
         "is_valid", "adjusted_factor_value"}
Values == {"True", "False"}
Dicts == [Keys -> Values \cup {Absent}]
EmptyDict == [k \in Keys |-> Absent]
KeySet(d) == {k \in Keys : d[k] # Absent}

\* Python truthiness of a name (None and "" are falsy) and of a dict value
IsSet(x) == x # None /\ x # ""

\* faulty variant: every value that is present counts as true
TruthyIfPresent(v) == v # Absent

Truthy(v) == v \notin {Absent, None, "False", ""}

Events == {"before_node", "after_node", "on_error", "on_complete"}

NodeResult(status, data, error, next) ==
    [status |-> status, data |-> data, error |-> error, next_node |-> next]

\* a handler return value that is not a NodeResult (e.g. None)
NotAResult == [status |-> "<no attribute>", data |-> EmptyDict,
               error |-> None, next_node |-> None]

\* handler: the name of the node's handler (see Returns)
WorkflowNode(name, rets, next, field, if_true, if_false, retry) ==
    [name |-> name, handler |-> rets, next_node |-> next, condition_field |-> field,
     condition_true |-> if_true, condition_false |-> if_false,
     retry_count |-> retry]

ExecutionRecord(name, status, error) ==
    [node_name |-> name, status |-> status, error |-> error]

PipelineResult(success, ctx, log, final, error) ==
    [success |-> success, context |-> ctx, execution_log |-> log,
     final_node |-> final, error |-> error]

NoRecord == ExecutionRecord("", PENDING, None)
NoResult == NodeResult(PENDING, EmptyDict, None, None)
NoHandler == [always |-> FALSE, raises |-> 0, ret |-> NoResult]
NoReturn == PipelineResult(FALSE, EmptyDict, <<>>, "", "<not returned>")

----------------------------------------------------------------------------
(* Error strings *)

\* str(e) of the exception the handler raises on its i-th invocation
ExcMsg(i) == "exc" \o ToString(i)

RetryError(retry, last_error) ==
    "node failed (retried " \o ToString(retry) \o "): " \o last_error

\* faulty variant: the unknown name ends the loop without an error
UnknownNodeErrorUnset(name) == None

UnknownNodeError(name) == "node " \o name \o " does not exist"
NoStartError == "start node not set"
AttributeError == "object has no attribute 'status'"

----------------------------------------------------------------------------
(* WorkflowNode *)

\* faulty variant: the first attempt is not counted on top of the retries
MaxAttemptsOffByOne(node) == node.retry_count

MaxAttempts(node) == node.retry_count + 1

\* faulty variant: `while attempts <= max_attempts`
MayAttemptOnceMore(attempts, max_attempts) == attempts <= max_attempts

\* `while attempts < max_attempts`
MayAttempt(attempts, max_attempts) == attempts < max_attempts

\* faulty variant: the error of the first failed attempt is kept
FirstError(last_error, e) == IF last_error = None THEN e ELSE last_error

\* `last_error = str(e)`: every failed attempt overwrites it
LastError(last_error, e) == e

\* faulty variant: a returned Failed result is retried like an exception
RetriesFailedResult(res) == res.status = FAILED

\* `result = self.handler(context); return result`: whatever the handler
\* returns is returned at once, its status is not looked at
RetriesResult(res) == FALSE

\* faulty variant: the before_node hooks are fired again for every retry
HooksFiredPerRetry(calls) == IF calls > 0 THEN calls - 1 ELSE 0

\* the retry loop of execute calls the handler and nothing else: the number
\* of times the before_node hooks are fired during `calls` attempts
HooksFiredByExecute(calls) == 0

\* does the i-th invocation of handler h raise
Raises(h, i) == h.always \/ i <= h.raises

\* the try/except of the retry loop: every Exception of the handler is caught
RECURSIVE ExecuteLoop(_, _, _, _, _)
ExecuteLoop(node, h, attempts, last_error, calls) ==
    IF MayAttempt(attempts, MaxAttempts(node))
    THEN IF ~Raises(h, calls + 1) /\ ~RetriesResult(h.ret)
         THEN [result |-> h.ret, invocations |-> calls + 1]
         ELSE ExecuteLoop(node, h, attempts + 1,
                          LastError(last_error, ExcMsg(calls + 1)), calls + 1)
    ELSE [result |-> NodeResult(FAILED, EmptyDict,
                                RetryError(node.retry_count, last_error), None),
          invocations |-> calls]

\* WorkflowNode.execute against a handler that raises on every invocation
\* (h.always) or on its first h.raises invocations, returning h.ret afterwards
Execute(node, h) == ExecuteLoop(node, h, 0, None, 0)

\* faulty variant: the retries are counted down on the node (self.retry_count)
NodesRetrySpent(graph, name, calls) ==
    [graph EXCEPT ![name].retry_count =
        IF calls - 1 <= @ THEN @ - (calls - 1) ELSE 0]

\* the graph after an execute call that made `calls` handler invocations:
\* attempts and max_attempts are locals, no attribute of the node is assigned
NodesAfterExecute(graph, name, calls) == graph

ContextGet(ctx, key, default) == IF ctx[key] = Absent THEN default ELSE ctx[key]

\* faulty variant: the static branch is consulted before the override of the result
GetNextNodeBranchFirst(node, ctx, res) ==
    IF IsSet(node.condition_field)
    THEN IF Truthy(ContextGet(ctx, node.condition_field, "False"))
         THEN node.condition_true
         ELSE node.condition_false
    ELSE IF IsSet(res.next_node) THEN res.next_node
         ELSE node.next_node

\* faulty variant: an unset branch target falls back to the default next_node
GetNextNodeFallback(node, ctx, res) ==
    IF IsSet(res.next_node) THEN res.next_node
    ELSE IF IsSet(node.condition_field)
         THEN LET target == IF Truthy(ContextGet(ctx, node.condition_field, "False"))
                            THEN node.condition_true
                            ELSE node.condition_false
              IN  IF IsSet(target) THEN target ELSE node.next_node
         ELSE node.next_node

\* faulty variant: the engine refuses to enter the node it has just executed
GetNextNodeNoRevisit(node, ctx, res) ==
    LET next == IF IsSet(res.next_node) THEN res.next_node
                ELSE IF IsSet(node.condition_field)
                     THEN IF Truthy(ContextGet(ctx, node.condition_field, "False"))
                          THEN node.condition_true
                          ELSE node.condition_false
                     ELSE node.next_node
    IN  IF next = node.name THEN None ELSE next

GetNextNode(node, ctx, res) ==
    IF IsSet(res.next_node) THEN res.next_node
    ELSE IF IsSet(node.condition_field)
         THEN IF Truthy(ContextGet(ctx, node.condition_field, "False"))
              THEN node.condition_true
              ELSE node.condition_false
         ELSE node.next_node

----------------------------------------------------------------------------
(* WorkflowPipeline *)

\* faulty variant: the context is replaced by result.data instead of updated
UpdateReplace(ctx, data) == data

\* dict.update
Update(ctx, data) == [k \in Keys |-> IF data[k] # Absent THEN data[k] ELSE ctx[k]]

\* faulty variant: result.data is dropped instead of merged
MergeDataDropped(ctx, data) == ctx

\* `if result.data: context.update(result.data)`
MergeData(ctx, data) == IF KeySet(data) # {} THEN Update(ctx, data) ELSE ctx

\* faulty variant: the data of a Failed result is left out of the context
MergedUnlessFailed(ctx, res) ==
    IF res.status = FAILED THEN ctx ELSE MergeData(ctx, res.data)

\* lines 193-194 come before the status test of line 197: the data of every
\* result is merged, whatever its status
Merged(ctx, res) == MergeData(ctx, res.data)

\* faulty variant: the handler is handed the copy of the context that was
\* taken when the node before it was entered
HandedSnapshot(ctx, snapshot) == snapshot

\* line 188, `node.execute(context)`: the handler is handed the dict that
\* every merge so far has updated
HandedContext(ctx, snapshot) == ctx

\* faulty variant: run without the check of lines 147-152
StartNeverMissing(cur) == FALSE

\* `if not current_node:`
StartMissing(cur) == ~IsSet(cur)

\* faulty variant: final_node is assigned before the lookup of the node
FinalNodeBeforeLookup(cur, prev, registered) == cur

\* final_node after the head of an iteration: line 170 is reached only when
\* the lookup of line 164 finds the node
FinalNode(cur, prev, registered) == IF registered THEN cur ELSE prev

\* faulty variant: `while True:`, a missing successor is looked up like any name
LoopContinuesAlways(cur) == TRUE

\* `while current_node:`
LoopContinues(cur) == IsSet(cur)

\* faulty variant: a Skipped result halts the walk like a Failed one
HaltsOnSkipped(status) == status \in {FAILED, SKIPPED}

\* `if result.status == NodeStatus.FAILED:` ... break
Halts(status) == status = FAILED

\* faulty variant: the record is put in front of the trace
LogPrepend(log, rec) == <<rec>> \o log

\* `execution_log.append(record)`
LogAppend(log, rec) == Append(log, rec)

\* `success = error_msg is None`
RunSuccess(err) == err = None

\* faulty variant: _trigger_hooks without its try/except
HookExceptionEscapes(outcome) == FALSE

\* the `except Exception` of _trigger_hooks catches what a callback raises
HookExceptionCaught(outcome) == outcome = "raise"

\* what a callback does to the context it is handed: an observer leaves it
\* alone, a writer sets the key "ok"; on_complete is not handed the context
CallbackEffect(event, kind, ctx) ==
    IF kind = "writer" /\ event # "on_complete"
    THEN [ctx EXCEPT !["ok"] = "True"]
    ELSE ctx

RECURSIVE HookLoop(_, _, _, _, _)
HookLoop(event, cbs, outs, i, acc) ==
    IF i > Len(cbs) THEN acc
    ELSE LET ctx2 == CallbackEffect(event, cbs[i], acc.context)
             acc2 == [acc EXCEPT !.called = @ + 1, !.context = ctx2]
         IN  IF outs[i] = "raise"
             THEN IF HookExceptionCaught(outs[i])
                  THEN HookLoop(event, cbs, outs, i + 1, [acc2 EXCEPT !.printed = TRUE])
                  ELSE [acc2 EXCEPT !.escaped = TRUE]
             ELSE HookLoop(event, cbs, outs, i + 1, acc2)

\* _trigger_hooks(event) when the i-th callback of the event ends as outs[i]
TriggerHooks(event, cbs, outs, ctx) ==
    HookLoop(event, cbs, outs, 1,
             [called |-> 0, escaped |-> FALSE, printed |-> FALSE, context |-> ctx])

HookOutcomes(cbs) == [1..Len(cbs) -> {"return", "raise"}]

----------------------------------------------------------------------------
(* Graphs, handler results and call arguments explored *)

DataChoices ==
    {EmptyDict,
     [EmptyDict EXCEPT !["ok"] = "True"],
     [EmptyDict EXCEPT !["ok"] = "False"],
     [EmptyDict EXCEPT !["k"] = "False"]}
ErrorChoices == {None, "boom"}
Overrides == {None, "C", "X"}

\* every NodeResult over the choices above, and a value that is no NodeResult
AnyResult ==
    {NodeResult(s, d, e, n) :
        s \in NodeStatus, d \in DataChoices, e \in ErrorChoices, n \in Overrides}
    \cup {NotAResult}

Ok(data) == NodeResult(SUCCESS, data, None, None)

\* stands for context.get("factor_value", 0) in a result not yet computed
FromContext == "<factor_value>"

\* what _node_validate returns when the validator reports a failure
ValidationFailed ==
    Ok([EmptyDict EXCEPT !["is_valid"] = "False",
                         !["adjusted_factor_value"] = FromContext])

\* faulty variant: the adjusted value of a failed validation is the default 0
ComputedWithDefault(res, ctx) ==
    [res EXCEPT !.data = [k \in Keys |-> IF res.data[k] = FromContext
                                         THEN "0" ELSE res.data[k]]]

\* the result of a handler that reads the context it is handed:
\* "adjusted_factor_value": context.get("factor_value", 0) (main.py line 186)
Computed(res, ctx) ==
    [res EXCEPT !.data = [k \in Keys |-> IF res.data[k] = FromContext
                                         THEN ContextGet(ctx, "factor_value", "0")
                                         ELSE res.data[k]]]

\* the values a handler may return, by the name of the handler
Returns(h) ==
    CASE h = "any" -> AnyResult
      [] h = "sets_ok" -> {Ok([EmptyDict EXCEPT !["ok"] = v]) : v \in Values}
      [] h = "ok_or_skip" -> {Ok(EmptyDict), NodeResult(SKIPPED, EmptyDict, None, None)}
      [] h = "ok_or_fail" -> {Ok([EmptyDict EXCEPT !["k"] = "False"]),
                              NodeResult(FAILED, EmptyDict, "boom", None)}
      [] h = "ok_or_skip_to_c" -> {Ok(EmptyDict), NodeResult(SKIPPED, EmptyDict, None, "C")}
      [] h = "ok_or_fail_silent" -> {Ok(EmptyDict), NodeResult(FAILED, EmptyDict, None, None)}
      \* the handlers of TextFactorAnalyzer; keys no routing reads are left out
      [] h = "_node_crawl" -> {Ok([EmptyDict EXCEPT !["content"] = "True"]),
                               NodeResult(FAILED, EmptyDict, "boom", None)}
      [] h = "_node_classify" ->
            {Ok([EmptyDict EXCEPT !["is_oil_related"] = v]) : v \in Values}
            \cup {Ok(EmptyDict), NodeResult(FAILED, EmptyDict, "boom", None)}
      [] h = "_node_mark_skip" ->
            {NodeResult(SKIPPED, [EmptyDict EXCEPT !["status"] = "skipped"],
                        None, None)}
      [] h = "_node_quantify" ->
            {Ok(EmptyDict), Ok([EmptyDict EXCEPT !["is_oil_related"] = "False"]),
             Ok([EmptyDict EXCEPT !["factor_value"] = "0.5"]),
             NodeResult(FAILED, EmptyDict, "boom", None)}
      [] h = "_node_query_similar" -> {Ok(EmptyDict)}
      \* the validator succeeds, or it reports a failure (lines 181-189)
      [] h = "_node_validate" -> {Ok(EmptyDict), ValidationFailed}
      [] h = "_node_save_event" -> {Ok(EmptyDict),
                                    NodeResult(FAILED, EmptyDict, "boom", None)}

\* A -> B, B branches on "ok" to C or D, C and D terminal
ScenarioGraph ==
    [n \in {"A", "B", "C", "D"} |->
        CASE n = "A" -> WorkflowNode("A", "sets_ok", "B", None, None, None, 0)
          [] n = "B" -> WorkflowNode("B", "any", None, "ok", "C", "D", MaxRetry)
          [] n = "C" -> WorkflowNode("C", "ok_or_skip", None, None, None, None, 1)
          [] n = "D" -> WorkflowNode("D", "ok_or_fail", None, None, None, None, 0)]

\* A has a branch (with an unset false target) and a default successor, B
\* leads to a name that is not registered, C is its own successor
IrregularGraph ==
    [n \in {"A", "B", "C"} |->
        CASE n = "A" -> WorkflowNode("A", "any", "C", "ok", "B", None, 1)
          [] n = "B" -> WorkflowNode("B", "ok_or_skip_to_c", "X", None, None, None, 0)
          [] n = "C" -> WorkflowNode("C", "ok_or_fail_silent", "C", None, None, None, MaxRetry)]

\* A -> B, B branches on "ok" to C or D and writes nothing itself
BranchGraph ==
    [n \in {"A", "B", "C", "D"} |->
        CASE n = "A" -> WorkflowNode("A", "sets_ok", "B", None, None, None, 0)
          [] n = "B" -> WorkflowNode("B", "ok_or_skip", None, "ok", "C", "D", 0)
          [] n = "C" -> WorkflowNode("C", "ok_or_skip", None, None, None, None, 0)
          [] n = "D" -> WorkflowNode("D", "ok_or_skip", None, None, None, None, 0)]

\* faulty variant: mark_skip is registered without its next_node
TextFactorPipelineSkipEnds ==
    [n \in {"crawl", "agent_classify", "mark_skip", "agent_quantify", "db_query",
            "agent_validate", "save_event"} |->
        CASE n = "crawl" ->
                WorkflowNode(n, "_node_crawl", "agent_classify", None, None, None, 0)
          [] n = "agent_classify" ->
                WorkflowNode(n, "_node_classify", None, "is_oil_related",
                             "agent_quantify", "mark_skip", 0)
          [] n = "mark_skip" ->
                WorkflowNode(n, "_node_mark_skip", None, None, None, None, 0)
          [] n = "agent_quantify" ->
                WorkflowNode(n, "_node_quantify", "db_query", None, None, None, 0)
          [] n = "db_query" ->
                WorkflowNode(n, "_node_query_similar", "agent_validate", None, None,
                             None, 0)
          [] n = "agent_validate" ->
                WorkflowNode(n, "_node_validate", "save_event", None, None, None, 0)
          [] n = "save_event" ->
                WorkflowNode(n, "_node_save_event", None, None, None, None, 0)]

\* the graph _build_pipeline registers
TextFactorPipeline ==
    [n \in {"crawl", "agent_classify", "mark_skip", "agent_quantify", "db_query",
            "agent_validate", "save_event"} |->
        CASE n = "crawl" ->
                WorkflowNode(n, "_node_crawl", "agent_classify", None, None, None, 0)
          [] n = "agent_classify" ->
                WorkflowNode(n, "_node_classify", None, "is_oil_related",
                             "agent_quantify", "mark_skip", 0)
          [] n = "mark_skip" ->
                WorkflowNode(n, "_node_mark_skip", "save_event", None, None, None, 0)
          [] n = "agent_quantify" ->
                WorkflowNode(n, "_node_quantify", "db_query", None, None, None, 0)
          [] n = "db_query" ->
                WorkflowNode(n, "_node_query_similar", "agent_validate", None, None,
                             None, 0)
          [] n = "agent_validate" ->
                WorkflowNode(n, "_node_validate", "save_event", None, None, None, 0)
          [] n = "save_event" ->
                WorkflowNode(n, "_node_save_event", None, None, None, None, 0)]

AbstractGraphs == {ScenarioGraph, IrregularGraph, BranchGraph}
Graphs == AbstractGraphs \cup {TextFactorPipeline}

\* the name handed to set_start
StartOf(graph) == IF "crawl" \in DOMAIN graph THEN "crawl" ELSE "A"

\* the registered nodes a run can go to from node n: its default successor,
\* its branch targets, and the overrides its handler may return
Successors(graph, n) ==
    ({graph[n].next_node, graph[n].condition_true, graph[n].condition_false}
        \cup {r.next_node : r \in Returns(graph[n].handler)})
    \cap DOMAIN graph

RECURSIVE Closure(_, _)
Closure(graph, S) ==
    LET T == S \cup UNION {Successors(graph, n) : n \in S}
    IN  IF T = S THEN S ELSE Closure(graph, T)

\* a graph without a cycle: every run ends, no cut-off is needed
Acyclic(graph) ==
    \A n \in DOMAIN graph : n \notin Closure(graph, Successors(graph, n))

Callbacks(kind) == [i \in 1..MaxHooks |-> IF i = 1 THEN kind ELSE "observer"]
HookLists == {<<>>, Callbacks("observer"), Callbacks("writer")}

\* a handler raises on every invocation, or on its first `raises` invocations
\* and then returns `ret`
Handlers(node) ==
    IF node.handler = "_node_mark_skip"
    THEN \* a single return statement: it cannot raise
         [always : {FALSE}, raises : {0}, ret : Returns(node.handler)]
    ELSE [always : {FALSE}, raises : 0..(node.retry_count + 1),
          ret : Returns(node.handler)]
         \cup {[always |-> TRUE, raises |-> 0, ret |-> NoResult]}

InitContexts == {EmptyDict, [k \in Keys |-> "True"]}
StartArgs == {None, "X"}

NoFired == [e \in Events |-> 0]

----------------------------------------------------------------------------
(* The pipeline object after construction and registration *)

\* no call of register or set_start has been made
NoCall == [op |-> "none", name |-> None, node |-> None, raised |-> FALSE]

\* the names and the nodes handed to register and set_start
RegNames == {"A", "B", "C"}
RegNodes ==
    {WorkflowNode(n, "any", nx, None, None, None, r) :
        n \in RegNames, nx \in {None, "A"}, r \in {0, MaxRetry}}

\* lines 70-71: the pipeline as the constructor leaves it
EmptyGraph == [n \in {} |-> None]

\* faulty variant: a name already registered keeps its first node
RegisteredKeepsFirst(graph, node) ==
    IF node.name \in DOMAIN graph THEN graph
    ELSE [k \in DOMAIN graph \cup {node.name} |->
             IF k = node.name THEN node ELSE graph[k]]

\* line 89: self.nodes[node.name] = node
Registered(graph, node) ==
    [k \in DOMAIN graph \cup {node.name} |->
        IF k = node.name THEN node ELSE graph[k]]

\* faulty variant: set_start accepts any name
SetStartAcceptsAny(graph, name) == FALSE

\* line 102: `if node_name not in self.nodes:` raise ValueError
SetStartRaises(graph, name) == name \notin DOMAIN graph

\* lines 79-90: WorkflowPipeline.register
register ==
    /\ pc = "idle"
    /\ \E node \in RegNodes :
       /\ nodes' = Registered(nodes, node)
       /\ call' = [op |-> "register", name |-> node.name, node |-> node,
                   raised |-> FALSE]
    /\ UNCHANGED <<start_node, hooks, run_locals, batch_vars, conc_vars,
                   shared_vars>>

\* lines 92-105: WorkflowPipeline.set_start
set_start ==
    /\ pc = "idle"
    /\ \E node_name \in RegNames \cup {"X"} :
       IF SetStartRaises(nodes, node_name)
       THEN /\ call' = [op |-> "set_start", name |-> node_name, node |-> None,
                        raised |-> TRUE]
            /\ UNCHANGED start_node
       ELSE /\ start_node' = node_name
            /\ call' = [op |-> "set_start", name |-> node_name, node |-> None,
                        raised |-> FALSE]
    /\ UNCHANGED <<nodes, hooks, run_locals, batch_vars, conc_vars, shared_vars>>

EngineInit ==
    /\ nodes \in Graphs
    /\ call = NoCall
    /\ start_node \in {None, StartOf(nodes)}
    /\ \E cbs \in HookLists : hooks = [e \in Events |-> cbs]
    /\ pc = "idle"
    /\ current_node = None
    /\ context = EmptyDict
    /\ execution_log = <<>>
    /\ final_node = ""
    /\ error_msg = None
    /\ record = NoRecord
    /\ result = NoResult
    /\ ret = NoReturn
    /\ handler = NoHandler
    /\ invocations = 0
    /\ pre_context = EmptyDict
    /\ fired = NoFired
    /\ handled = 0
    /\ exc = None
    /\ hook_failed = FALSE
    /\ executed = 0
    /\ twin_context = EmptyDict
    /\ twin_node = None
    /\ merged_data = EmptyDict

pipeline_vars == <<nodes, start_node, hooks, call>>

\* the node of the current iteration (local `node` of run)
Node == nodes[final_node]

\* bookkeeping shared by every call of _trigger_hooks
Trigger(event, t) ==
    /\ fired' = [fired EXCEPT ![event] = @ + t.called]
    /\ hook_failed' = (hook_failed \/ t.printed)

----------------------------------------------------------------------------
(* WorkflowPipeline.run *)

\* lines 145-157: pick the start node, return at once when there is none
Run ==
    /\ pc = "idle"
    /\ \E ctx \in InitContexts, start \in StartArgs :
       LET cur == IF IsSet(start) THEN start ELSE start_node IN
       /\ current_node' = cur
       /\ context' = ctx
       /\ twin_node' = cur
       /\ twin_context' = ctx
       /\ IF StartMissing(cur)
          THEN /\ ret' = PipelineResult(FALSE, ctx, <<>>, "", NoStartError)
               /\ pc' = "done"
          ELSE /\ ret' = NoReturn
               /\ pc' = "loop"
    /\ UNCHANGED <<batch_vars, conc_vars, shared_vars, merged_data, pipeline_vars, execution_log, final_node, error_msg, record,
                   result, handler, invocations, pre_context, fired, handled, executed,
                   exc, hook_failed>>

\* lines 163-181: loop test, lookup of the node, new ExecutionRecord
LoopHead ==
    /\ pc = "loop"
    /\ IF ~LoopContinues(current_node)
       THEN /\ pc' = "finish"
            /\ UNCHANGED <<final_node, record, error_msg, result, handler,
                           invocations>>
       ELSE IF current_node \notin DOMAIN nodes
       THEN /\ error_msg' = UnknownNodeError(current_node)
            /\ final_node' = FinalNode(current_node, final_node, FALSE)
            /\ pc' = "finish"
            /\ UNCHANGED <<record, result, handler, invocations>>
       ELSE /\ \/ Len(execution_log) < MaxSteps
               \/ Acyclic(nodes) /\ Len(execution_log) <= Cardinality(DOMAIN nodes)
            /\ final_node' = FinalNode(current_node, final_node, TRUE)
            /\ record' = ExecutionRecord(nodes[current_node].name, RUNNING, None)
            /\ pc' = "before"
            \* result is dead until line 188 assigns it again
            /\ result' = NoResult
            /\ handler' = NoHandler
            /\ invocations' = 0
            /\ UNCHANGED error_msg
    /\ UNCHANGED <<batch_vars, conc_vars, shared_vars, merged_data, pipeline_vars, current_node, context, execution_log, ret,
                   pre_context, fired, handled, executed, exc, hook_failed, twin_context,
                   twin_node>>

\* line 184: before_node hooks, outside the try statement
BeforeNode ==
    /\ pc = "before"
    /\ \E outs \in HookOutcomes(hooks["before_node"]) :
       /\ LET t == TriggerHooks("before_node", hooks["before_node"], outs, context) IN
          /\ Trigger("before_node", t)
          /\ context' = t.context
          /\ pc' = IF t.escaped THEN "raised" ELSE "execute"
       /\ UNCHANGED <<batch_vars, conc_vars, shared_vars, merged_data, pipeline_vars, current_node, execution_log, final_node,
                      error_msg, record, result, ret, handler, invocations,
                      pre_context, handled, executed, exc, twin_context, twin_node>>

\* line 188: node.execute(context)
ExecuteNode ==
    /\ pc = "execute"
    /\ \E called \in Handlers(Node) :
       LET h == [called EXCEPT !.ret = Computed(called.ret, context)]
           e == Execute(Node, h) IN
       /\ result' = e.result
       /\ invocations' = e.invocations
       /\ handler' = h
       /\ nodes' = NodesAfterExecute(nodes, final_node, e.invocations)
       /\ fired' = [fired EXCEPT !["before_node"] =
                       @ + Len(hooks["before_node"])
                              * HooksFiredByExecute(e.invocations)]
    /\ pre_context' = HandedContext(context, pre_context)
    /\ executed' = executed + 1
    /\ pc' = "merge"
    /\ UNCHANGED <<batch_vars, conc_vars, shared_vars, merged_data, start_node, hooks, call, current_node, context, execution_log,
                   final_node, error_msg, record, ret, handled, exc,
                   hook_failed, twin_context, twin_node>>

\* lines 189-194: copy status and error into the record, merge result.data
MergeResult ==
    /\ pc = "merge"
    /\ IF result.status \notin NodeStatus
       THEN /\ exc' = AttributeError
            /\ pc' = "except"
            /\ UNCHANGED <<record, context, twin_context, merged_data>>
       ELSE /\ record' = [record EXCEPT !.status = result.status,
                                        !.error = result.error]
            /\ merged_data' = result.data
            /\ context' = Merged(context, result)
            /\ twin_context' = Merged(twin_context, result)
            /\ pc' = "route"
            /\ UNCHANGED exc
    /\ UNCHANGED <<batch_vars, conc_vars, shared_vars, pipeline_vars, current_node, execution_log, final_node,
                   error_msg, result, ret, handler, invocations, pre_context,
                   fired, handled, executed, hook_failed, twin_node>>

\* lines 197-207: a Failed result fires on_error and breaks, any other status
\* resolves the successor
Route ==
    /\ pc = "route"
    /\ IF Halts(result.status)
       THEN \E outs \in HookOutcomes(hooks["on_error"]) :
            LET t == TriggerHooks("on_error", hooks["on_error"], outs, context) IN
            /\ Trigger("on_error", t)
            /\ context' = t.context
            /\ IF t.escaped
               THEN /\ exc' = "hook"
                    /\ pc' = "except"
                    /\ UNCHANGED error_msg
               ELSE /\ error_msg' = result.error
                    /\ pc' = "finally_break"
                    /\ UNCHANGED exc
            /\ UNCHANGED <<current_node, twin_node>>
       ELSE /\ current_node' = GetNextNode(Node, context, result)
            /\ twin_node' = GetNextNode(Node, twin_context, result)
            /\ pc' = "finally"
            /\ UNCHANGED <<context, error_msg, exc, fired, hook_failed>>
    /\ UNCHANGED <<batch_vars, conc_vars, shared_vars, merged_data, pipeline_vars, execution_log, final_node, record, result,
                   ret, handler, invocations, pre_context, handled, executed, twin_context>>

\* lines 209-214: an exception inside the try statement
Except ==
    /\ pc = "except"
    /\ \E outs \in HookOutcomes(hooks["on_error"]) :
       /\ record' = [record EXCEPT !.status = FAILED, !.error = exc]
       /\ error_msg' = exc
       /\ handled' = handled + 1
       /\ LET t == TriggerHooks("on_error", hooks["on_error"], outs, context) IN
          /\ Trigger("on_error", t)
          /\ context' = t.context
          /\ pc' = IF t.escaped THEN "finally_raise" ELSE "finally_break"
       /\ exc' = None
       /\ UNCHANGED <<batch_vars, conc_vars, shared_vars, merged_data, pipeline_vars, current_node, execution_log, final_node,
                      result, ret, handler, invocations, pre_context,
                      twin_context, twin_node, executed>>

\* lines 216-223: the finally clause appends the record and fires after_node
Finally ==
    /\ pc \in {"finally", "finally_break", "finally_raise"}
    /\ \E outs \in HookOutcomes(hooks["after_node"]) :
       /\ execution_log' = LogAppend(execution_log, record)
       /\ LET t == TriggerHooks("after_node", hooks["after_node"], outs, context) IN
          /\ Trigger("after_node", t)
          /\ context' = t.context
          /\ pc' = IF t.escaped \/ pc = "finally_raise" THEN "raised"
                   ELSE IF pc = "finally_break" THEN "finish"
                   ELSE "loop"
       /\ UNCHANGED <<batch_vars, conc_vars, shared_vars, merged_data, pipeline_vars, current_node, final_node, error_msg, record,
                      result, ret, handler, invocations, pre_context, handled, executed, exc,
                      twin_context, twin_node>>

\* lines 226-246: build the PipelineResult, fire on_complete, return
Finish ==
    /\ pc = "finish"
    /\ \E outs \in HookOutcomes(hooks["on_complete"]) :
       /\ LET t == TriggerHooks("on_complete", hooks["on_complete"], outs, context) IN
          /\ Trigger("on_complete", t)
          /\ IF t.escaped
             THEN /\ pc' = "raised"
                  /\ ret' = NoReturn
             ELSE /\ pc' = "done"
                  /\ ret' = PipelineResult(RunSuccess(error_msg), context,
                                           execution_log, final_node, error_msg)
       /\ UNCHANGED <<batch_vars, conc_vars, shared_vars, merged_data, pipeline_vars, current_node, context, execution_log,
                      final_node, error_msg, record, result, handler, invocations,
                      pre_context, handled, executed, exc, twin_context, twin_node>>

EngineNext ==
    \/ Run
    \/ LoopHead
    \/ BeforeNode
    \/ ExecuteNode
    \/ MergeResult
    \/ Route
    \/ Except
    \/ Finally
    \/ Finish

----------------------------------------------------------------------------
(* TextFactorAnalyzer.analyze_batch *)

\* how the processing of an item ends: its pipeline run succeeds, its pipeline
\* run returns success = false, _process_single_item itself raises, or its
\* pipeline run halts before save_event on a Failed result that carries no
\* error (main.py line 130 passes on the error of the agent, which may be None)
Kinds == {"ok", "fails", "raises", "halts_silent"}

Workers == 1..MaxWorkers
Items == 1..Len(news_items)

\* faulty variant: `return result` instead of `return result.success`
ProcessSingleItemTruthy(kind) ==
    CASE kind = "ok" -> "true"
      [] kind = "fails" -> "true"
      [] kind = "raises" -> "false"
      [] kind = "halts_silent" -> "true"

\* what the Future of _process_single_item holds in the end: the try/except
\* of lines 243-260 turns every exception into the return value False
ProcessSingleItem(kind) ==
    CASE kind = "ok" -> "true"
      [] kind = "fails" -> "false"
      [] kind = "raises" -> "false"
      \* `success = error_msg is None` (pipeline.py line 226)
      [] kind = "halts_silent" -> IF RunSuccess(None) THEN "true" ELSE "false"

\* lines 305-312: the counter the as_completed loop increments for a future
Tally(f) ==
    CASE f = "true" -> "success_count"
      [] f = "false" -> "fail_count"
      [] f = "exception" -> "fail_count"

\* the save_event node of a successful run appends the item to daily_results
Collected(results, i) ==
    IF news_items[i] = "ok" THEN Append(results, i) ELSE results

\* faulty variant: one context dict created before the loop and reused
SharedContext(prev, i) == prev \cup {i}

\* `context = {"news_item": item}` (lines 244 and 322): a new dict per item
FreshContext(prev, i) == {i}

\* faulty variant: the collecting loop is left at the first finished future
FirstCollected(done, items) == done # {}

\* lines 304-313: as_completed is exhausted and the with block is left only
\* when every submitted future has finished
AllCollected(done, items) == done = items

\* faulty variant: a thread is started for every task, whatever max_workers
PoolUnbounded(w, limit) == TRUE

\* `ThreadPoolExecutor(max_workers=max_workers)`: the pool has the threads
\* 1 .. max_workers and never more
PoolHasThread(w, limit) == w <= limit

BatchIdle ==
    /\ bpc = "idle"
    /\ queue = <<>>
    /\ worker = [w \in Workers |-> 0]
    /\ future = [i \in 1..NumItems |-> "none"]
    /\ tallied = {}
    /\ success_count = 0
    /\ fail_count = 0
    /\ serial_idx = 0
    /\ daily_results = <<>>
    /\ runs = [i \in 1..NumItems |-> 0]
    /\ item_context = [i \in 1..NumItems |-> {}]
    /\ reported = FALSE

\* lines 279-292 and 319: reset daily_results, choose the mode
AnalyzeBatch ==
    /\ bpc = "idle"
    /\ daily_results' = <<>>
    /\ bpc' = IF parallel /\ Len(news_items) > 1 THEN "submit" ELSE "serial"
    /\ UNCHANGED <<engine_vars, conc_vars, shared_vars, news_items, parallel, max_workers, queue, worker, future,
                   tallied, success_count, fail_count, serial_idx, runs,
                   item_context, reported>>

\* lines 296-303: executor.submit for the next item; the counters are set to
\* zero once every item is submitted
Submit ==
    /\ bpc = "submit"
    /\ LET idx == Cardinality({i \in Items : future[i] # "none"}) + 1 IN
       /\ idx \in Items
       /\ future[idx] = "none"
       /\ future' = [future EXCEPT ![idx] = "pending"]
       /\ queue' = Append(queue, idx)
       /\ bpc' = IF idx = Len(news_items) THEN "collect" ELSE "submit"
    /\ success_count' = 0
    /\ fail_count' = 0
    /\ UNCHANGED <<engine_vars, conc_vars, shared_vars, news_items, parallel, max_workers, worker, tallied,
                   serial_idx, daily_results, runs, item_context, reported>>

\* a free thread of the pool takes the oldest task and calls
\* _process_single_item, which builds the context of the item; lines 243-244
WorkerTake(w) ==
    /\ PoolHasThread(w, max_workers)
    /\ worker[w] = 0
    /\ queue # <<>>
    /\ worker' = [worker EXCEPT ![w] = Head(queue)]
    /\ queue' = Tail(queue)
    /\ runs' = [runs EXCEPT ![Head(queue)] = @ + 1]
    /\ item_context' = [item_context EXCEPT ![Head(queue)] = FreshContext({}, Head(queue))]
    /\ UNCHANGED <<engine_vars, conc_vars, shared_vars, news_items, parallel, max_workers, bpc, future, tallied,
                   success_count, fail_count, serial_idx, daily_results, reported>>

\* lines 250-260: the pipeline run of the item and the return into the Future
WorkerRun(w) ==
    /\ worker[w] # 0
    /\ LET i == worker[w] IN
       /\ future' = [future EXCEPT ![i] = ProcessSingleItem(news_items[i])]
       /\ daily_results' = Collected(daily_results, i)
    /\ worker' = [worker EXCEPT ![w] = 0]
    /\ UNCHANGED <<engine_vars, conc_vars, shared_vars, news_items, parallel, max_workers, bpc, queue, tallied,
                   success_count, fail_count, serial_idx, runs, item_context,
                   reported>>

\* lines 304-316: as_completed yields a finished future, the loop counts it;
\* after the last one the with block is left and the tally is printed
Collect(i) ==
    /\ bpc = "collect"
    /\ i \in Items \ tallied
    /\ future[i] \in {"true", "false", "exception"}
    /\ tallied' = tallied \cup {i}
    /\ success_count' = success_count + IF Tally(future[i]) = "success_count" THEN 1 ELSE 0
    /\ fail_count' = fail_count + IF Tally(future[i]) = "fail_count" THEN 1 ELSE 0
    /\ bpc' = IF AllCollected(tallied', Items) THEN "aggregate" ELSE "collect"
    /\ reported' = AllCollected(tallied', Items)
    /\ UNCHANGED <<engine_vars, conc_vars, shared_vars, news_items, parallel, max_workers, queue, worker, future,
                   serial_idx, daily_results, runs, item_context>>

\* lines 320-323: the serial loop builds a context for the next item, runs the
\* pipeline on it and drops the PipelineResult; no tally is kept or printed
SerialRun ==
    /\ bpc = "serial"
    /\ IF serial_idx < Len(news_items)
       THEN LET i == serial_idx + 1
                prev == IF serial_idx = 0 THEN {} ELSE item_context[serial_idx]
            IN  /\ serial_idx' = i
                /\ runs' = [runs EXCEPT ![i] = @ + 1]
                /\ item_context' = [item_context EXCEPT ![i] = FreshContext(prev, i)]
                /\ daily_results' = Collected(daily_results, i)
                /\ UNCHANGED bpc
       ELSE /\ bpc' = "aggregate"
            /\ UNCHANGED <<serial_idx, daily_results, runs, item_context>>
    /\ UNCHANGED <<engine_vars, conc_vars, shared_vars, news_items, parallel, max_workers, queue, worker, future,
                   tallied, success_count, fail_count, reported>>

\* lines 325-333: aggregate daily_results and return
Aggregate ==
    /\ bpc = "aggregate"
    /\ bpc' = "done"
    /\ UNCHANGED <<engine_vars, conc_vars, shared_vars, news_items, parallel, max_workers, queue, worker, future,
                   tallied, success_count, fail_count, serial_idx, daily_results,
                   runs, item_context, reported>>

----------------------------------------------------------------------------
(* The worker threads of the parallel mode, statement by statement *)

Threads == 1..MaxWorkers
NewsIds == {"n1", "n2"}
Locks == {"_print_lock", "_results_lock"}

\* faulty variant: context and execution_log kept on the shared analyzer
FrameShared(t) == 1

\* `context = {"news_item": item}` (main.py line 244) and
\* `execution_log = []` (pipeline.py line 154) are locals of the call thread t
\* makes: the objects belong to the frame of that call
Frame(t) == t

\* the lock a `with` statement at this position asks for
LockWanted(p) ==
    CASE p \in {"want_print_begin", "want_print_end"} -> "_print_lock"
      [] p = "want_results" -> "_results_lock"

\* position inside the `with` block entered from position p
Inside(p) ==
    CASE p = "want_print_begin" -> "print_begin"
      [] p = "want_print_end" -> "print_end"
      [] p = "want_results" -> "append"

\* position after the `with` block whose body is position p
After(p) ==
    CASE p = "print_begin" -> "run"
      [] p = "print_end" -> "done"
      [] p = "append" -> "merge"

\* the lock held at a position
LockHeldAt(p) ==
    CASE p \in {"print_begin", "print_end"} -> "_print_lock"
      [] p = "append" -> "_results_lock"
      [] OTHER -> None

\* the shared resource a thread at position p is in the middle of using
Accessing(p) ==
    CASE p \in {"print_begin", "print_end", "run_banner"} -> "console"
      [] p = "save_event" -> "repository"
      [] p = "append" -> "daily_results"
      [] OTHER -> None

ConcIdle ==
    /\ tpc = [t \in Threads |-> "idle"]
    /\ titem = [t \in Threads |-> "n1"]
    /\ tctx = [c \in Threads |-> {}]
    /\ tlog = [c \in Threads |-> <<>>]
    /\ texisting = [t \in Threads |-> FALSE]
    /\ tsaved = [t \in Threads |-> "none"]
    /\ store = [n \in NewsIds |-> 0]
    /\ lock = [l \in Locks |-> 0]
    /\ collected = <<>>

\* main.py line 244: _process_single_item builds the context of its item
Build(t) ==
    /\ tpc[t] = "start"
    /\ tctx' = [tctx EXCEPT ![Frame(t)] = @ \cup {t}]
    /\ tpc' = [tpc EXCEPT ![t] = "want_print_begin"]
    /\ UNCHANGED <<engine_vars, batch_vars, shared_vars, titem, tlog, texisting, tsaved, store,
                   lock, collected>>

\* `with self._print_lock:` (lines 247, 252) and `with self._results_lock:`
\* (line 225): the thread waits until the lock is free and takes it
Acquire(t) ==
    /\ tpc[t] \in {"want_print_begin", "want_print_end", "want_results"}
    /\ lock[LockWanted(tpc[t])] = 0
    /\ lock' = [lock EXCEPT ![LockWanted(tpc[t])] = t]
    /\ tpc' = [tpc EXCEPT ![t] = Inside(tpc[t])]
    /\ UNCHANGED <<engine_vars, batch_vars, shared_vars, titem, tctx, tlog, texisting, tsaved,
                   store, collected>>

\* the body of the `with` block ends (the print of lines 248 and 253-254, the
\* append of line 226) and the lock is released
Release(t) ==
    /\ tpc[t] \in {"print_begin", "print_end", "append"}
    /\ lock' = [lock EXCEPT ![LockHeldAt(tpc[t])] = 0]
    /\ collected' = IF tpc[t] = "append" THEN Append(collected, t) ELSE collected
    /\ tpc' = [tpc EXCEPT ![t] = After(tpc[t])]
    /\ UNCHANGED <<engine_vars, batch_vars, shared_vars, titem, tctx, tlog, texisting, tsaved,
                   store>>

\* pipeline.py lines 154-161: run creates its execution_log and starts the
\* prints of the banner, holding no lock
RunBanner(t) ==
    /\ tpc[t] = "run"
    /\ tpc' = [tpc EXCEPT ![t] = "run_banner"]
    /\ UNCHANGED <<engine_vars, batch_vars, shared_vars, titem, tctx, tlog, texisting, tsaved,
                   store, lock, collected>>

\* repository.py lines 28-31, reached through the nodes of the run and
\* main.py line 223: the banner is printed, save_event opens a session and
\* queries the row of the news_id, holding no lock
Query(t) ==
    /\ tpc[t] = "run_banner"
    /\ texisting' = [texisting EXCEPT ![t] = store[titem[t]] > 0]
    /\ tpc' = [tpc EXCEPT ![t] = "save_event"]
    /\ UNCHANGED <<engine_vars, batch_vars, shared_vars, titem, tctx, tlog, tsaved, store, lock,
                   collected>>

\* repository.py lines 32-48: update of the row found, or insert of a new
\* row; the commit of an insert fails on the unique news_id when a row has
\* appeared since the query, and save_event raises; main.py lines 222-229
Commit(t) ==
    /\ tpc[t] = "save_event"
    /\ IF texisting[t]
       THEN /\ tsaved' = [tsaved EXCEPT ![t] = "ok"]
            /\ UNCHANGED store
       ELSE IF store[titem[t]] > 0
       THEN /\ tsaved' = [tsaved EXCEPT ![t] = "failed"]
            /\ UNCHANGED store
       ELSE /\ tsaved' = [tsaved EXCEPT ![t] = "ok"]
            /\ store' = [store EXCEPT ![titem[t]] = @ + 1]
    /\ tpc' = [tpc EXCEPT ![t] = IF tsaved'[t] = "ok" THEN "want_results" ELSE "merge"]
    /\ UNCHANGED <<engine_vars, batch_vars, shared_vars, titem, tctx, tlog, texisting, lock,
                   collected>>

\* pipeline.py lines 194 and 220: the result of the node is merged into the
\* context of the run and its record appended to the execution_log of the run
Merge(t) ==
    /\ tpc[t] = "merge"
    /\ tctx' = [tctx EXCEPT ![Frame(t)] = @ \cup {t}]
    /\ tlog' = [tlog EXCEPT ![Frame(t)] = Append(@, t)]
    /\ tpc' = [tpc EXCEPT ![t] = "want_print_end"]
    /\ UNCHANGED <<engine_vars, batch_vars, shared_vars, titem, texisting, tsaved, store, lock,
                   collected>>

ThreadNext ==
    \/ \E t \in Threads : Build(t)
    \/ \E t \in Threads : Acquire(t)
    \/ \E t \in Threads : Release(t)
    \/ \E t \in Threads : RunBanner(t)
    \/ \E t \in Threads : Query(t)
    \/ \E t \in Threads : Commit(t)
    \/ \E t \in Threads : Merge(t)

----------------------------------------------------------------------------
(* Concurrent run calls on one pipeline instance (self.pipeline) *)

Runs == 1..MaxWorkers

\* what the handlers of one run call do: every handler raises on its first
\* `raises` invocations and then returns Success with ok = value
Plans ==
    {[raises |-> 0, value |-> "True"], [raises |-> 0, value |-> "False"],
     [raises |-> 1, value |-> "False"], [raises |-> MaxRetry + 1, value |-> "True"]}

PlannedHandler(plan) ==
    [always |-> FALSE, raises |-> plan.raises,
     ret |-> Ok([EmptyDict EXCEPT !["ok"] = plan.value])]

AllReturn(cbs) == [i \in 1..Len(cbs) |-> "return"]

\* the locals of run after line 157
RunLocals(ctx, cur) ==
    [initial |-> ctx, current_node |-> cur, context |-> ctx,
     execution_log |-> <<>>, final_node |-> "", error_msg |-> None,
     halted |-> FALSE, invocations |-> 0]

NoLocals == RunLocals(EmptyDict, None)

\* one iteration of the loop of run (lines 163-223) with callbacks that return
Iteration(graph, hks, plan, st) ==
    LET node == graph[st.current_node]
        b == TriggerHooks("before_node", hks["before_node"],
                          AllReturn(hks["before_node"]), st.context)
        e == Execute(node, PlannedHandler(plan))
        res == e.result
        merged == Merged(b.context, res)
        halted == Halts(res.status)
        c2 == IF halted
              THEN TriggerHooks("on_error", hks["on_error"],
                                AllReturn(hks["on_error"]), merged).context
              ELSE merged
        c3 == TriggerHooks("after_node", hks["after_node"],
                           AllReturn(hks["after_node"]), c2).context
    IN  [initial |-> st.initial,
         current_node |-> IF halted THEN st.current_node
                          ELSE GetNextNode(node, c2, res),
         context |-> c3,
         execution_log |-> LogAppend(st.execution_log,
                              ExecutionRecord(node.name, res.status, res.error)),
         final_node |-> st.current_node,
         error_msg |-> IF halted THEN res.error ELSE st.error_msg,
         halted |-> halted,
         invocations |-> e.invocations]

\* the loop is left: break, `while current_node`, or an unknown name
RunEnds(graph, st) ==
    \/ st.halted
    \/ ~LoopContinues(st.current_node)
    \/ st.current_node \notin DOMAIN graph

\* lines 165-168 and 226-246
Returned(graph, st) ==
    LET err == IF ~st.halted /\ LoopContinues(st.current_node)
                  /\ st.current_node \notin DOMAIN graph
               THEN UnknownNodeError(st.current_node)
               ELSE st.error_msg
    IN  PipelineResult(RunSuccess(err), st.context, st.execution_log,
                       st.final_node, err)

RECURSIVE RunLoop(_, _, _, _)
RunLoop(graph, hks, plan, st) ==
    IF RunEnds(graph, st) THEN Returned(graph, st)
    ELSE IF Len(st.execution_log) >= MaxSteps THEN NoReturn
    ELSE RunLoop(graph, hks, plan, Iteration(graph, hks, plan, st))

\* what run(ctx) returns when no other call is under way
RunAlone(graph, hks, start, plan, ctx) ==
    IF StartMissing(start)
    THEN PipelineResult(FALSE, ctx, <<>>, "", NoStartError)
    ELSE RunLoop(graph, hks, plan, RunLocals(ctx, start))

SharedIdle ==
    /\ rpc = [r \in Runs |-> "idle"]
    /\ rst = [r \in Runs |-> NoLocals]
    /\ rret = [r \in Runs |-> NoReturn]
    /\ rplan = [r \in Runs |-> [raises |-> 0, value |-> "True"]]
    /\ overlapped = FALSE

\* a run call that has started and not returned
UnderWay(r) == rpc[r] = "loop"

\* lines 145-157 of the call r, handed a context of its own
StartRun(r) ==
    /\ rpc[r] = "idle"
    /\ \E ctx \in InitContexts :
       /\ rst' = [rst EXCEPT ![r] = RunLocals(ctx, start_node)]
       /\ IF StartMissing(start_node)
          THEN /\ rret' = [rret EXCEPT ![r] = PipelineResult(FALSE, ctx, <<>>, "",
                                                              NoStartError)]
               /\ rpc' = [rpc EXCEPT ![r] = "done"]
          ELSE /\ rpc' = [rpc EXCEPT ![r] = "loop"]
               /\ UNCHANGED rret
    /\ UNCHANGED <<engine_vars, batch_vars, conc_vars, rplan, overlapped>>

\* lines 163-223 of the call r: one node
IterateRun(r) ==
    /\ rpc[r] = "loop"
    /\ ~RunEnds(nodes, rst[r])
    /\ Len(rst[r].execution_log) < MaxSteps
    /\ LET st == Iteration(nodes, hooks, rplan[r], rst[r]) IN
       /\ rst' = [rst EXCEPT ![r] = st]
       /\ nodes' = NodesAfterExecute(nodes, rst[r].current_node, st.invocations)
    /\ overlapped' = (overlapped \/ \E q \in Runs \ {r} : UnderWay(q))
    /\ UNCHANGED <<start_node, hooks, call, run_locals, batch_vars, conc_vars, rpc,
                   rret, rplan>>

\* lines 226-246 of the call r
ReturnRun(r) ==
    /\ rpc[r] = "loop"
    /\ RunEnds(nodes, rst[r])
    /\ rret' = [rret EXCEPT ![r] = Returned(nodes, rst[r])]
    /\ rpc' = [rpc EXCEPT ![r] = "done"]
    /\ UNCHANGED <<engine_vars, batch_vars, conc_vars, rst, rplan, overlapped>>

SharedNext ==
    \/ \E r \in Runs : StartRun(r)
    \/ \E r \in Runs : IterateRun(r)
    \/ \E r \in Runs : ReturnRun(r)

----------------------------------------------------------------------------
(* Specifications *)

\* one call of WorkflowPipeline.run
Init ==
    /\ EngineInit
    /\ news_items = <<>> /\ parallel = FALSE /\ max_workers = 1
    /\ BatchIdle
    /\ ConcIdle
    /\ SharedIdle

Next == EngineNext

Spec == Init /\ [][Next]_vars

\* no call of run under way on the engine
LocalsIdle ==
    /\ pc = "idle" /\ current_node = None /\ context = EmptyDict
    /\ execution_log = <<>> /\ final_node = "" /\ error_msg = None
    /\ record = NoRecord /\ result = NoResult /\ ret = NoReturn
    /\ handler = NoHandler /\ invocations = 0 /\ pre_context = EmptyDict
    /\ fired = NoFired /\ handled = 0 /\ exc = None /\ hook_failed = FALSE
    /\ twin_context = EmptyDict /\ twin_node = None /\ executed = 0
    /\ merged_data = EmptyDict

\* run is sequential code: as long as every handler and callback returns or
\* raises, the next step of the call is taken
FairSpec == Spec /\ WF_vars(Next)

EngineIdle ==
    /\ nodes = ScenarioGraph /\ start_node = "A" /\ call = NoCall
    /\ hooks = [e \in Events |-> <<>>]
    /\ LocalsIdle

\* one call of TextFactorAnalyzer.analyze_batch
BatchInit ==
    /\ EngineIdle
    /\ \E n \in 1..NumItems : news_items \in [1..n -> Kinds]
    /\ parallel \in BOOLEAN
    /\ max_workers \in Workers
    /\ BatchIdle
    /\ ConcIdle
    /\ SharedIdle

BatchNext ==
    \/ AnalyzeBatch
    \/ Submit
    \/ \E w \in Workers : WorkerTake(w)
    \/ \E w \in Workers : WorkerRun(w)
    \/ \E i \in 1..NumItems : Collect(i)
    \/ SerialRun
    \/ Aggregate

SpecBatch == BatchInit /\ [][BatchNext]_vars

\* the threads of the pool keep running: an idle thread takes a queued task,
\* and the task a thread runs comes to its end
PoolFairness ==
    \A w \in Workers : WF_vars(WorkerTake(w)) /\ WF_vars(WorkerRun(w))

FairSpecBatch == SpecBatch /\ PoolFairness

\* the threads of a parallel batch, each inside _process_single_item with an
\* item of its own; two items may carry the same news_id, and the table may
\* already hold a row for a news_id
ThreadInit ==
    /\ EngineIdle
    /\ news_items = <<>> /\ parallel = TRUE /\ max_workers = MaxWorkers
    /\ BatchIdle
    /\ tpc = [t \in Threads |-> "start"]
    /\ titem \in [Threads -> NewsIds]
    /\ tctx = [c \in Threads |-> {}]
    /\ tlog = [c \in Threads |-> <<>>]
    /\ texisting = [t \in Threads |-> FALSE]
    /\ tsaved = [t \in Threads |-> "none"]
    /\ store \in [NewsIds -> {0, 1}]
    /\ lock = [l \in Locks |-> 0]
    /\ collected = <<>>
    /\ SharedIdle

SpecThreads == ThreadInit /\ [][ThreadNext]_vars

\* max_workers threads call run on the one pipeline of the analyzer
SharedInit ==
    /\ LocalsIdle
    /\ news_items = <<>> /\ parallel = TRUE /\ max_workers = MaxWorkers
    /\ BatchIdle
    /\ ConcIdle
    /\ rpc = [r \in Runs |-> "idle"]
    /\ rst = [r \in Runs |-> NoLocals]
    /\ rret = [r \in Runs |-> NoReturn]
    /\ rplan \in [Runs -> Plans]
    /\ nodes \in AbstractGraphs /\ start_node = StartOf(nodes) /\ call = NoCall
    /\ \E cbs \in {<<>>, Callbacks("writer")} : hooks = [e \in Events |-> cbs]
    /\ overlapped = FALSE

SpecShared == SharedInit /\ [][SharedNext]_vars

\* a pipeline fresh from its constructor, then any calls of register and
\* set_start
RegisterInit ==
    /\ nodes = EmptyGraph /\ start_node = None /\ call = NoCall
    /\ hooks = [e \in Events |-> <<>>]
    /\ LocalsIdle
    /\ news_items = <<>> /\ parallel = FALSE /\ max_workers = 1
    /\ BatchIdle
    /\ ConcIdle
    /\ SharedIdle

RegisterNext == register \/ set_start

SpecRegister == RegisterInit /\ [][RegisterNext]_vars

----------------------------------------------------------------------------
(* Properties of WorkflowNode and of WorkflowPipeline.run *)

ValidResult == result.status \in NodeStatus
Started == ret.error # NoStartError
NoWriters == \A e \in Events : \A i \in 1..Len(hooks[e]) : hooks[e][i] # "writer"
InIteration == pc \in {"execute", "merge", "route", "except", "finally",
                       "finally_break", "finally_raise"}

\* C1 (fail-fast): a record with status Failed is the last record of the
\* trace, and a returned PipelineResult whose trace holds a Failed record has
\* success = false.
FailFast ==
    /\ \A i \in 1..Len(execution_log) :
          execution_log[i].status = FAILED => i = Len(execution_log)
    /\ (pc = "done" /\ \E i \in 1..Len(ret.execution_log) :
                          ret.execution_log[i].status = FAILED)
          => ~ret.success

\* C2 (routing precedence): once a node has been routed, the successor is the
\* override of the result when it is set; else one of the two branch targets
\* when the node has a condition_field; else the default next_node.
RoutingPrecedence ==
    pc = "finally" =>
        /\ IsSet(result.next_node) => current_node = result.next_node
        /\ (~IsSet(result.next_node) /\ IsSet(Node.condition_field))
              => current_node \in {Node.condition_true, Node.condition_false}
        /\ (~IsSet(result.next_node) /\ ~IsSet(Node.condition_field))
              => current_node = Node.next_node

\* C2 witness: the branch field is true, the branch targets are C and D, the
\* override is X, and the run is routed to X.
RoutingOverrideWins ==
    /\ pc = "finally"
    /\ Node.condition_field = "ok" /\ context["ok"] = "True"
    /\ Node.condition_true = "C" /\ Node.condition_false = "D"
    /\ result.next_node = "X" /\ current_node = "X"

\* C3 (retry budget exhaustion): when execute returns from a handler that
\* raised on every invocation, the handler was invoked retry_count + 1 times
\* and the result has status Failed.
RetryExhaustion ==
    (pc = "merge" /\ (handler.always \/ handler.raises > Node.retry_count))
        => /\ invocations = Node.retry_count + 1
           /\ result.status = FAILED

\* C3 witness: a node with the largest retry_count exhausts its attempts.
RetryExhausted ==
    /\ pc = "merge" /\ handler.always
    /\ Node.retry_count = MaxRetry
    /\ invocations = MaxRetry + 1 /\ result.status = FAILED

\* C4 (retry recovery): when the handler raises on its first k <= retry_count
\* invocations and returns on the next, execute returns that very result after
\* exactly k + 1 invocations.
RetryRecovery ==
    (pc = "merge" /\ ~handler.always /\ handler.raises <= Node.retry_count)
        => /\ result = handler.ret
           /\ invocations = handler.raises + 1

\* C4 witness: the handler fails retry_count > 0 times and then succeeds.
RetryRecovered ==
    /\ pc = "merge" /\ ~handler.always
    /\ Node.retry_count > 0 /\ handler.raises = Node.retry_count
    /\ result.status = SUCCESS /\ invocations = Node.retry_count + 1

\* C5 (skip-continue): the walk breaks out of the loop only on a record with
\* status Failed; after any other status the next node is the successor that
\* get_next_node gives for the same result with status Success.
SkipContinue ==
    /\ pc = "finally_break" => record.status = FAILED
    /\ pc = "finally" =>
          /\ record.status \in NodeStatus \ {FAILED}
          /\ current_node =
                GetNextNode(Node, context, [result EXCEPT !.status = SUCCESS])
    /\ (pc \in {"finally", "finally_break"} /\ ValidResult /\ result.status # FAILED)
          => (pc = "finally" /\ error_msg = None)

\* C5 witness: a Skipped node has been routed to a successor.
SkippedRouted ==
    /\ pc = "finally" /\ record.status = SKIPPED
    /\ IsSet(current_node) /\ current_node \in DOMAIN nodes

TerminalCase ==
    /\ ValidResult /\ result.status # FAILED
    /\ ~IsSet(Node.next_node) /\ ~IsSet(Node.condition_field)
    /\ ~IsSet(result.next_node)

\* C6 (terminal node): a node without default successor and condition_field
\* whose non-failing result has no override is the last node of the run, and
\* the run returns success = true, error None and that node as final_node.
TerminalNode ==
    /\ (pc \in {"finally", "loop", "finish"} /\ final_node \in DOMAIN nodes
          /\ TerminalCase)
          => (~IsSet(current_node) /\ error_msg = None)
    /\ (pc = "done" /\ Len(ret.execution_log) > 0 /\ TerminalCase)
          => /\ ret.success
             /\ ret.error = None
             /\ ret.final_node = Node.name
             /\ ret.execution_log[Len(ret.execution_log)].node_name = Node.name

\* C6 witness: a run of two nodes returned at a terminal node.
TerminalReached ==
    /\ pc = "done" /\ Len(ret.execution_log) > 1
    /\ TerminalCase /\ ret.success

\* C7 (merge monotonicity): after the merge of a node's result.data no key of
\* the context handed to the node is missing, every key of result.data holds
\* the value of result.data, and every other key holds the value it had.
MergeMonotone ==
    pc = "route" =>
        /\ KeySet(pre_context) \subseteq KeySet(context)
        /\ \A k \in Keys :
              context[k] = IF result.data[k] # Absent THEN result.data[k]
                           ELSE pre_context[k]

\* C7 witness: a later node overwrites one key and another key is kept.
MergeOverwrites ==
    /\ pc = "route" /\ Len(execution_log) > 0
    /\ pre_context["ok"] = "True" /\ result.data["ok"] = "False"
    /\ context["ok"] = "False" /\ context["k"] = "True"

\* C9 (on_complete exactly once): when run has returned, every registered
\* on_complete callback has been called exactly once, whatever the outcome.
OnCompleteOnce ==
    pc = "done" => fired["on_complete"] = Len(hooks["on_complete"])

\* C10 (hooks are observational): with callbacks that may raise (and that do
\* not themselves write the context), no exception leaves run, the run has
\* the context and the current node of the same run without hooks and returns
\* that context, the except clause of run is entered only for a value that is
\* no NodeResult, the record keeps the status and error of the node's result,
\* and every firing of an event calls all of its callbacks.
HooksObservational ==
    NoWriters =>
        /\ pc # "raised"
        /\ twin_context = context
        /\ pc = "done" => ret.context = twin_context
        /\ twin_node = current_node
        /\ handled > 0 => ~ValidResult
        /\ (pc \in {"route", "finally", "finally_break"} /\ ValidResult)
              => (record.status = result.status /\ record.error = result.error)
        /\ fired["before_node"] = Len(hooks["before_node"])
              * (Len(execution_log) + IF InIteration THEN 1 ELSE 0)
        /\ fired["after_node"] = Len(hooks["after_node"]) * Len(execution_log)
        /\ (pc = "done" /\ Started)
              => fired["on_complete"] = Len(hooks["on_complete"])

\* C10 witness: a run in which a callback raised has returned success after
\* two nodes.
HookRaisedRunCompleted ==
    /\ pc = "done" /\ NoWriters /\ hook_failed
    /\ Len(ret.execution_log) > 1 /\ ret.success

BetweenNodes == pc \in {"loop", "finish", "done"}

\* number of trace records whose status is in S
Recorded(S) ==
    Cardinality({i \in 1..Len(execution_log) : execution_log[i].status \in S})

\* C11 (hook selection by status): between two iterations the on_error
\* callbacks have been called once per Failed record and the after_node
\* callbacks once per Success or Skipped record and for no other record; and
\* when the successor of a Success or Skipped node has been computed, the
\* after_node callbacks of that node have already been called.
HookSelection ==
    /\ BetweenNodes =>
          /\ fired["on_error"] = Len(hooks["on_error"]) * Recorded({FAILED})
          /\ fired["after_node"]
                = Len(hooks["after_node"]) * Recorded({SUCCESS, SKIPPED})
    /\ (pc = "finally" /\ record.status \in {SUCCESS, SKIPPED}) =>
          fired["after_node"]
             = Len(hooks["after_node"]) * (Recorded({SUCCESS, SKIPPED}) + 1)

\* C12 (routing reads the branch field after the merge): when a node with a
\* condition_field writes that field in its own result.data and gives no
\* override, the successor follows the value just written.
RoutingAfterMerge ==
    (pc = "finally" /\ IsSet(Node.condition_field) /\ ~IsSet(result.next_node)
        /\ result.data[Node.condition_field] # Absent)
      => current_node = IF result.data[Node.condition_field] = "True"
                        THEN Node.condition_true
                        ELSE Node.condition_false

\* C12 witness: the node was handed ok = True, wrote ok = False and was routed
\* to its false target.
BranchFieldRewritten ==
    /\ pc = "finally" /\ Node.condition_field = "ok" /\ ~IsSet(result.next_node)
    /\ pre_context["ok"] = "True" /\ result.data["ok"] = "False"
    /\ Node.condition_false = "D" /\ current_node = "D"

TraceNames(log) == [i \in 1..Len(log) |-> log[i].node_name]

\* C13 (branch evaluation): without override a node with a condition_field is
\* followed by condition_true when the field is present and true in the
\* context and by condition_false when it is missing or false; and on the
\* graph A -> B, B branching on ok to C or D, an all-Success run from the empty
\* context visits A, B, C when A sets ok = True and A, B, D when A sets
\* ok = False, ends at that last node and returns success.
BranchEvaluation ==
    /\ (pc = "finally" /\ IsSet(Node.condition_field) /\ ~IsSet(result.next_node))
          => current_node = IF context[Node.condition_field] = "True"
                            THEN Node.condition_true
                            ELSE Node.condition_false
    /\ (pc = "done" /\ nodes = BranchGraph /\ NoWriters
          /\ ret.execution_log # <<>> /\ ret.execution_log[1].node_name = "A"
          /\ ret.context["k"] = Absent
          /\ \A i \in 1..Len(ret.execution_log) :
                ret.execution_log[i].status = SUCCESS)
          => /\ ret.success
             /\ TraceNames(ret.execution_log)
                   = IF ret.context["ok"] = "True" THEN <<"A", "B", "C">>
                     ELSE <<"A", "B", "D">>
             /\ ret.final_node = IF ret.context["ok"] = "True" THEN "C" ELSE "D"

\* C13 witness: A set ok = False and the run visited A, B, D.
BranchFalseTaken ==
    /\ pc = "done" /\ nodes = BranchGraph /\ NoWriters
    /\ ret.context["ok"] = "False" /\ ret.context["k"] = Absent
    /\ TraceNames(ret.execution_log) = <<"A", "B", "D">>
    /\ ret.final_node = "D" /\ ret.success

\* C14 (routing error): when the walk arrives at a name that is not
\* registered, the run ends with an error naming it and success = false, no
\* record carries that name, final_node is not that name and no call of
\* node.execute was made for it; a handler only ever runs for a registered
\* node.
RoutingError ==
    /\ (pc \in {"finish", "done"} /\ IsSet(current_node)
          /\ current_node \notin DOMAIN nodes)
          => /\ error_msg = "node " \o current_node \o " does not exist"
             /\ \A i \in 1..Len(execution_log) :
                   execution_log[i].node_name # current_node
             /\ final_node # current_node
             /\ executed = Len(execution_log)
             /\ pc = "done" => (~ret.success /\ ret.error = error_msg
                                  /\ ret.execution_log = execution_log)
    /\ (pc = "before" \/ InIteration)
          => (final_node \in DOMAIN nodes /\ Node.name = final_node)

\* C14 witness: a node was executed, its successor X is not registered, and
\* the run returned the routing error.
UnknownSuccessor ==
    /\ pc = "done" /\ current_node = "X" /\ "X" \notin DOMAIN nodes
    /\ Len(ret.execution_log) > 0 /\ ~ret.success
    /\ ret.error = "node X does not exist"

\* C15 (missing start): when run returns with no node chosen at all, success
\* is false, the error is a non-empty string, no handler and no before_node,
\* after_node or on_error callback was called, the trace is empty and the
\* context returned is the context passed in.
MissingStart ==
    (pc = "done" /\ ~IsSet(current_node) /\ executed = 0)
        => /\ ~ret.success
           /\ IsSet(ret.error)
           /\ ret.execution_log = <<>>
           /\ ret.final_node = ""
           /\ invocations = 0 /\ handler = NoHandler
           /\ \A e \in {"before_node", "after_node", "on_error"} : fired[e] = 0
           /\ ret.context = twin_context /\ context = twin_context

\* C15 witness: a pipeline with hooks and without start node returned at once,
\* handing back a non-empty context.
MissingStartReturned ==
    /\ pc = "done" /\ start_node = None /\ ~IsSet(current_node)
    /\ hooks["before_node"] # <<>>
    /\ ret.context = [k \in Keys |-> "True"]
    /\ ~ret.success /\ ret.execution_log = <<>>

\* C16 (no silent failure): every trace record with status Failed carries a
\* non-empty error, a record carries an error only when its status is Failed,
\* and a returned PipelineResult with success = false carries a non-empty
\* error.
NoSilentFailure ==
    /\ \A i \in 1..Len(execution_log) :
          /\ execution_log[i].status = FAILED => IsSet(execution_log[i].error)
          /\ IsSet(execution_log[i].error) => execution_log[i].status = FAILED
    /\ (pc = "done" /\ ~ret.success) => IsSet(ret.error)

Last(log) == log[Len(log)]

TraceShapeInv ==
    /\ Len(execution_log) = IF BetweenNodes \/ pc \in {"idle", "before", "execute"}
                            THEN executed ELSE executed - 1
    /\ (BetweenNodes /\ execution_log # <<>>)
          => /\ final_node = Last(execution_log).node_name
             /\ ValidResult => Last(execution_log).status = result.status
    /\ pc = "done" => (ret.execution_log = execution_log
                         /\ ret.final_node = final_node)
    /\ (pc \in {"finish", "done"} /\ handler.always)
          => /\ Last(execution_log).node_name = Node.name
             /\ Last(execution_log).status = FAILED
             /\ invocations = Node.retry_count + 1
             /\ final_node = Node.name
             /\ pc = "done" => ~ret.success

TraceShapeStep ==
    execution_log' # execution_log
        => /\ execution_log' = Append(execution_log, record)
           /\ record.node_name = final_node
           /\ executed = Len(execution_log) + 1

\* C17 (trace shape): the trace holds one record per call of node.execute,
\* each record is appended at the end when its node has been executed and
\* carries the name of that node and the status of its result, and between
\* iterations final_node is the name of the last record; a node whose handler
\* always raises leaves a single Failed record as the last one, after
\* retry_count + 1 invocations, with final_node that node and success = false.
TraceShape == []TraceShapeInv /\ [][TraceShapeStep]_vars

\* C17 witness: node B of the scenario graph raised on each of its
\* MaxRetry + 1 attempts; the trace is A, B with B Failed.
RetriedNodeRecordedOnce ==
    /\ pc = "done" /\ nodes = ScenarioGraph /\ handler.always
    /\ invocations = MaxRetry + 1 /\ executed = 2
    /\ TraceNames(ret.execution_log) = <<"A", "B">>
    /\ Last(ret.execution_log).status = FAILED
    /\ ret.final_node = "B" /\ ~ret.success

----------------------------------------------------------------------------
(* Properties of analyze_batch *)

\* the items whose run does not return success = true
Failing == {i \in Items : news_items[i] \in {"fails", "raises"}}
ParallelMode == parallel /\ Len(news_items) > 1

\* C8 (batch isolation): in parallel mode no Future ends with an exception,
\* the Future of an item is true exactly when the run of that item succeeds,
\* and once every future is counted fail_count is the number of failing items
\* and success_count the number of the others; so one failing item among N
\* gives fail_count = 1 and success_count = N - 1, for every worker count and
\* completion order.
BatchIsolation ==
    /\ \A i \in Items :
          /\ future[i] # "exception"
          /\ future[i] \in {"true", "false"} => (future[i] = "true" <=> i \notin Failing)
    /\ (ParallelMode /\ bpc \in {"aggregate", "done"}) =>
          /\ fail_count = Cardinality(Failing)
          /\ success_count = Len(news_items) - Cardinality(Failing)
          /\ Cardinality(Failing) = 1 =>
                (fail_count = 1 /\ success_count = Len(news_items) - 1)

\* C8 witness: a batch of the largest size whose second item raises has been
\* counted, the other items having succeeded.
OneItemRaised ==
    /\ ParallelMode /\ bpc = "done"
    /\ Len(news_items) = NumItems
    /\ news_items[2] = "raises" /\ Failing = {2}
    /\ fail_count = 1 /\ success_count = NumItems - 1

Finished(i) ==
    IF ParallelMode
    THEN future[i] \in {"true", "false", "exception"}
    ELSE i <= serial_idx

\* C18 (batch completion): in both modes the processing of an item is started
\* at most once, and when analyze_batch goes on to the aggregation the
\* processing of every item has been started exactly once and has finished,
\* no task is left in the pool and no worker is busy, whichever items failed.
BatchCompletion ==
    /\ \A i \in 1..NumItems : runs[i] <= IF i \in Items THEN 1 ELSE 0
    /\ bpc \in {"aggregate", "done"} =>
          /\ \A i \in Items : runs[i] = 1 /\ Finished(i)
          /\ queue = <<>>
          /\ \A w \in Workers : worker[w] = 0

\* C18 witness: a parallel batch of the largest size whose first item fails
\* has been aggregated after every item was processed.
AllProcessedDespiteFailure ==
    /\ ParallelMode /\ bpc = "done" /\ Len(news_items) = NumItems
    /\ news_items[1] = "fails"
    /\ \A i \in Items : runs[i] = 1 /\ future[i] \in {"true", "false"}

Succeeding == {i \in Items : news_items[i] = "ok"}

\* C19 (batch tally): in either mode, when analyze_batch goes on to the
\* aggregation it has reported a tally in which success_count is the number
\* of successful runs, fail_count the number of the others, and the two add
\* up to the number of items.
BatchTally ==
    bpc \in {"aggregate", "done"} =>
        /\ reported
        /\ success_count = Cardinality(Succeeding)
        /\ fail_count = Len(news_items) - Cardinality(Succeeding)
        /\ success_count + fail_count = Len(news_items)

\* C20 (sequential order): in sequential mode the items processed so far are
\* exactly the first serial_idx items, each processed once with a context
\* that holds that item only, and daily_results lists the saved ones among
\* them in input order.
SequentialOrder ==
    ~ParallelMode =>
        /\ \A i \in Items : runs[i] = IF i <= serial_idx THEN 1 ELSE 0
        /\ \A i \in Items : i <= serial_idx => item_context[i] = {i}
        /\ {daily_results[j] : j \in 1..Len(daily_results)}
              = {i \in Succeeding : i <= serial_idx}
        /\ \A j, k \in 1..Len(daily_results) :
              j < k => daily_results[j] < daily_results[k]

\* C20 witness: a sequential batch of three items whose second item fails has
\* saved items 1 and 3, in that order.
SerialBatchInOrder ==
    /\ ~parallel /\ bpc = "done" /\ Len(news_items) = 3
    /\ news_items[2] # "ok" /\ serial_idx = 3
    /\ daily_results = <<1, 3>>
    /\ item_context[3] = {3}

InFlight == {w \in Workers : worker[w] # 0}

PoolBound == Cardinality(InFlight) <= max_workers

\* C21 (bounded pool): at every instant at most max_workers items are being
\* processed, and every item that was submitted to the pool is eventually
\* taken by a worker.
BoundedPool ==
    /\ []PoolBound
    /\ \A i \in 1..NumItems : (future[i] = "pending") ~> (runs[i] = 1)

\* C21 witness: with max_workers = 1 the only thread is busy while another
\* submitted item waits in the queue.
PoolSaturated ==
    /\ ParallelMode /\ max_workers = 1
    /\ Cardinality(InFlight) = 1 /\ queue # <<>>

\* C25 (no rollback on failure): once a node has returned a Failed result,
\* and with no hook writing to the context, the context holds for every key
\* the value of the failed result's data when it carries the key and else
\* the value the context had when the node was entered; the PipelineResult
\* that is returned carries that context.
NoRollback ==
    (/\ pc \in {"finally_break", "finish", "done"}
     /\ NoWriters
     /\ ValidResult
     /\ result.status = FAILED)
        => /\ \A k \in Keys :
                 context[k] = IF result.data[k] # Absent THEN result.data[k]
                              ELSE pre_context[k]
           /\ pc = "done" => ret.context = context

\* C25 witness: the first node wrote ok = False, the second node failed with
\* k = False in its data, and the returned context holds both.
FailedRunKeepsMerges ==
    /\ pc = "done" /\ NoWriters
    /\ Len(ret.execution_log) = 2
    /\ ret.execution_log[2].status = FAILED
    /\ result.status = FAILED /\ result.data["k"] = "False"
    /\ pre_context["ok"] = "False" /\ pre_context["k"] = Absent
    /\ ret.context["ok"] = "False" /\ ret.context["k"] = "False"

\* C26 (graph read-only during execution): no step of a run call changes the
\* node mapping (routing metadata and retry_count included), the start node
\* or the hook lists, and every call that has returned, whatever the other
\* calls did meanwhile, returned what the same call returns when run alone.
GraphReadOnly ==
    [][/\ nodes' = nodes
       /\ start_node' = start_node
       /\ hooks' = hooks
       /\ \A r \in Runs :
             rpc'[r] = "done"
                => rret'[r] = RunAlone(nodes', hooks', start_node', rplan'[r],
                                       rst'[r].initial)]_vars

\* C26 witness: every call has returned, one of them having executed a node
\* while another was under way; the first recovered from a raising handler
\* on a retry, the second exhausted its retries on the same graph.
ConcurrentRunsReturned ==
    /\ \A r \in Runs : rpc[r] = "done"
    /\ overlapped
    /\ rplan[1].raises = 1 /\ rret[1].success
    /\ rplan[2].raises = MaxRetry + 1 /\ ~rret[2].success

\* C27 (hooks cannot alter control flow): the node a run is at is the node
\* the same run is at on a pipeline without hooks, whatever the registered
\* callbacks do with the context they are handed.
HooksCannotReroute == twin_node = current_node

\* C29 (strict sequencing): when the before_node hooks or the handler of a
\* node are about to be invoked, every node executed before it has been
\* recorded and the before_node hooks have fired for the earlier nodes only;
\* and, with no hook writing to the context, the context handed to the
\* handler of a node after the first holds every value the node before it
\* wrote.
StrictSequencing ==
    /\ pc \in {"before", "execute"}
          => /\ executed = Len(execution_log)
             /\ fired["before_node"] =
                   Len(hooks["before_node"])
                      * (executed + IF pc = "execute" THEN 1 ELSE 0)
    /\ (pc = "merge" /\ executed > 1 /\ NoWriters)
          => \A k \in Keys :
                merged_data[k] # Absent => pre_context[k] = merged_data[k]

\* C29 witness: the first node overwrote ok = True with False and the handler
\* of the second node has been handed a context with ok = False.
SecondNodeReadsFirst ==
    /\ pc = "merge" /\ executed = 2 /\ NoWriters
    /\ Len(execution_log) = 1
    /\ hooks["before_node"] # <<>>
    /\ merged_data["ok"] = "False"
    /\ pre_context["ok"] = "False" /\ pre_context["k"] = "True"

\* C30 (retry error reporting): when execute returns from a handler that
\* raised on every attempt, the error of the result names the retry_count of
\* the node and the error of attempt retry_count + 1, its data is empty and
\* its next_node is unset.
RetryErrorReport ==
    (pc = "merge" /\ (handler.always \/ handler.raises > Node.retry_count))
        => /\ result.error = "node failed (retried "
                                \o ToString(Node.retry_count) \o "): exc"
                                \o ToString(Node.retry_count + 1)
           /\ result.data = EmptyDict
           /\ result.next_node = None

\* C30 witness: a node with retry_count = 1 exhausts its two attempts and the
\* error reports the second one.
LastAttemptReported ==
    /\ pc = "merge"
    /\ Node.retry_count = 1 /\ handler.always /\ invocations = 2
    /\ result.error = "node failed (retried 1): exc2"

SkipPath == <<"crawl", "agent_classify", "mark_skip", "save_event">>
FullPath == <<"crawl", "agent_classify", "agent_quantify", "db_query",
              "agent_validate", "save_event">>

IsPrefix(p, q) == Len(p) <= Len(q) /\ \A i \in 1..Len(p) : p[i] = q[i]

\* a run of the TextFactorPipeline whose crawl and agent_classify succeeded
Classified ==
    /\ "crawl" \in DOMAIN nodes
    /\ Len(execution_log) >= 2
    /\ execution_log[1] = ExecutionRecord("crawl", SUCCESS, None)
    /\ execution_log[2] = ExecutionRecord("agent_classify", SUCCESS, None)

\* the run has left agent_classify on its false branch, or on its true branch
TookSkip == Len(execution_log) >= 3 /\ execution_log[3].node_name = "mark_skip"
TookFull == Len(execution_log) >= 3 /\ execution_log[3].node_name = "agent_quantify"

\* C28 as stated: a returned run whose crawl and agent_classify succeeded has
\* visited crawl, agent_classify, mark_skip (Skipped), save_event, or crawl,
\* agent_classify, agent_quantify, db_query, agent_validate, save_event.
SkippedReachPersistence ==
    (Classified /\ pc = "done")
        => \/ /\ TraceNames(ret.execution_log) = SkipPath
              /\ ret.execution_log[3].status = SKIPPED
              /\ ret.context["status"] = "skipped"
           \/ TraceNames(ret.execution_log) = FullPath

\* C28 (skipped items reach persistence), amended: in a run of the
\* TextFactorPipeline whose crawl and agent_classify succeeded, agent_classify
\* is left for agent_quantify when is_oil_related is true in the context and
\* for mark_skip otherwise; on the false branch the returned run has visited
\* crawl, agent_classify, mark_skip (Skipped), save_event, and save_event was
\* handed a context with status = skipped; on the true branch the nodes
\* visited are the first nodes of crawl, agent_classify, agent_quantify,
\* db_query, agent_validate, save_event, all of them unless the last node
\* visited failed.
SkippedReachPersistenceOrHalt ==
    /\ ("crawl" \in DOMAIN nodes /\ pc = "finally"
           /\ final_node = "agent_classify" /\ record.status = SUCCESS
           /\ execution_log = <<ExecutionRecord("crawl", SUCCESS, None)>>)
          => current_node = IF context["is_oil_related"] = "True"
                            THEN "agent_quantify" ELSE "mark_skip"
    /\ (Classified /\ Len(execution_log) >= 3) => TookSkip \/ TookFull
    /\ (Classified /\ TookSkip)
          => /\ IsPrefix(TraceNames(execution_log), SkipPath)
             /\ execution_log[3].status = SKIPPED
             /\ (pc = "merge" /\ final_node = "save_event")
                   => pre_context["status"] = "skipped"
             /\ pc = "done"
                   => /\ TraceNames(ret.execution_log) = SkipPath
                      /\ ret.context["status"] = "skipped"
    /\ (Classified /\ TookFull)
          => /\ IsPrefix(TraceNames(execution_log), FullPath)
             /\ pc = "done"
                   => \/ TraceNames(ret.execution_log) = FullPath
                      \/ Last(ret.execution_log).status = FAILED

\* C28 witness: a run returned after crawl, agent_classify (is_oil_related
\* false), mark_skip and save_event, with status = skipped in its context.
SkippedItemSaved ==
    /\ pc = "done" /\ Classified
    /\ TraceNames(ret.execution_log) = SkipPath
    /\ ret.execution_log[3].status = SKIPPED
    /\ ret.execution_log[4].status = SUCCESS
    /\ ret.context["is_oil_related"] = "False"
    /\ ret.context["status"] = "skipped"
    /\ ret.success

\* C31 (only raised exceptions are retried): when execute returns from a
\* handler that returned a Failed result without raising, the handler was
\* invoked once, whatever the retry_count of the node, and the result of
\* execute is the result of the handler.
OnlyExceptionsRetried ==
    (pc = "merge" /\ ~handler.always /\ handler.raises = 0
        /\ handler.ret.status = FAILED)
        => /\ invocations = 1
           /\ result = handler.ret

\* C31 witness: a node with the largest retry_count whose handler returned
\* Failed with the error boom was invoked once.
FailedResultNotRetried ==
    /\ pc = "merge"
    /\ Node.retry_count = MaxRetry
    /\ ~handler.always /\ handler.raises = 0
    /\ handler.ret = NodeResult(FAILED, EmptyDict, "boom", None)
    /\ result = handler.ret /\ invocations = 1

\* the node of the iteration has a branch and a default successor, and its
\* result is a valid one that neither halts the run nor names a successor
BranchAndDefault ==
    /\ final_node \in DOMAIN nodes
    /\ IsSet(Node.condition_field) /\ IsSet(Node.next_node)
    /\ ValidResult /\ result.status # FAILED
    /\ ~IsSet(result.next_node)

\* C32 (branch shadows default): a node with a condition_field and a default
\* next_node, whose result has no override, is left for condition_true when
\* the field is true in the context and for condition_false otherwise; when
\* that target is none the run returns with success = true, that node being
\* its final node and the last one of its trace.
BranchShadowsDefault ==
    /\ (pc = "finally" /\ BranchAndDefault)
          => current_node = IF context[Node.condition_field] = "True"
                            THEN Node.condition_true
                            ELSE Node.condition_false
    /\ (pc = "done" /\ BranchAndDefault /\ Started /\ current_node = None)
          => /\ ret.success
             /\ ret.final_node = final_node
             /\ ret.execution_log # <<>>
             /\ Last(ret.execution_log).node_name = Node.name

\* C32 witness: node A of the irregular graph (default C, false target none)
\* found ok false, and the run returned successfully after A alone.
DefaultNotUsed ==
    /\ pc = "done" /\ nodes = IrregularGraph /\ NoWriters
    /\ BranchAndDefault /\ final_node = "A"
    /\ Node.next_node = "C" /\ Node.condition_false = None
    /\ ret.context["ok"] = "False"
    /\ ret.success /\ TraceNames(ret.execution_log) = <<"A">>

\* C33 (on_error cardinality): the on_error hooks are never fired more than
\* once, and when the loop of run has been left every on_error callback has
\* been called once if the last record of the trace has status Failed, and
\* no on_error callback has been called otherwise.
OnErrorCardinality ==
    /\ fired["on_error"] <= Len(hooks["on_error"])
    /\ pc \in {"finish", "done"}
          => fired["on_error"] =
                IF execution_log # <<>> /\ Last(execution_log).status = FAILED
                THEN Len(hooks["on_error"])
                ELSE 0

\* C33 witness: a run with on_error callbacks registered returned after its
\* second node failed, each callback called once.
OnErrorFiredOnce ==
    /\ pc = "done"
    /\ Len(hooks["on_error"]) = MaxHooks
    /\ Len(ret.execution_log) = 2
    /\ ret.execution_log[2].status = FAILED
    /\ fired["on_error"] = MaxHooks

\* C34 (before_node cardinality): when the handler of a node is about to be
\* invoked for the first time the before_node callbacks have been called once
\* for that node and once for every node before it; they are not called
\* during the attempts of execute; and when the run returns every callback
\* has been called once per record of the execution_log.
BeforeNodeCardinality ==
    /\ pc = "execute"
          => fired["before_node"]
                = Len(hooks["before_node"]) * (Len(execution_log) + 1)
    /\ pc = "merge"
          => fired["before_node"]
                = Len(hooks["before_node"]) * (Len(execution_log) + 1)
    /\ pc = "done"
          => fired["before_node"]
                = Len(hooks["before_node"]) * Len(ret.execution_log)

\* C34 witness: the second node of a run was attempted MaxRetry + 1 times and
\* every before_node callback has been called twice.
BeforeNodeNotRefired ==
    /\ pc = "merge"
    /\ Len(hooks["before_node"]) = MaxHooks
    /\ Len(execution_log) = 1
    /\ invocations = MaxRetry + 1
    /\ fired["before_node"] = 2 * MaxHooks

\* the node of the iteration is its own default successor and has no branch
SelfLoop ==
    /\ final_node \in DOMAIN nodes
    /\ Node.next_node = Node.name /\ ~IsSet(Node.condition_field)

\* C35 (termination): on a graph where no node is reachable from itself a run
\* executes at most as many nodes as are registered and, every handler and
\* callback terminating, returns; a node that is its own successor is entered
\* again after every iteration that does not fail, and a run that has reached
\* it leaves the loop only on a Failed record.
Termination ==
    /\ [](Acyclic(nodes) => executed <= Cardinality(DOMAIN nodes))
    /\ (Acyclic(nodes) ~> pc = "done")
    /\ []((pc = "finally" /\ SelfLoop /\ ~IsSet(result.next_node))
             => current_node = final_node)
    /\ []((pc \in {"finish", "done"} /\ SelfLoop /\ ~IsSet(result.next_node))
             => Last(execution_log).status = FAILED)

\* C35 witness: a run of the TextFactorPipeline, which has no cycle, returned
\* after executing six of its seven nodes.
AcyclicRunReturned ==
    /\ pc = "done" /\ Acyclic(nodes)
    /\ Cardinality(DOMAIN nodes) = 7
    /\ executed = 6 /\ Len(ret.execution_log) = 6
    /\ ret.success

\* C36 (result collection): when a parallel analyze_batch goes on to the
\* aggregation, daily_results holds no item twice, holds exactly the items
\* whose save_event node succeeded, and has as many entries as success_count.
ResultCollection ==
    (ParallelMode /\ bpc \in {"aggregate", "done"})
        => /\ \A j, k \in 1..Len(daily_results) :
                 j # k => daily_results[j] # daily_results[k]
           /\ {daily_results[j] : j \in 1..Len(daily_results)} = Succeeding
           /\ Len(daily_results) = success_count

\* the handler of agent_validate in the TextFactorPipeline returned after the
\* validator reported a failure
ValidatorReportedFailure ==
    /\ "agent_validate" \in DOMAIN nodes /\ final_node = "agent_validate"
    /\ ~handler.always /\ handler.raises = 0
    /\ handler.ret.data["is_valid"] = "False"

\* the run of the TextFactorPipeline has left its loop on a Failed result of
\* crawl, agent_classify or agent_quantify
HaltedBeforeValidation ==
    /\ "crawl" \in DOMAIN nodes
    /\ pc \in {"finish", "done"}
    /\ final_node \in {"crawl", "agent_classify", "agent_quantify"}
    /\ result.status = FAILED

\* C37 (validation is fail-soft): when the validator reports a failure,
\* agent_validate returns Success with is_valid = false and
\* adjusted_factor_value = the factor_value of the context (0 when there is
\* none), and the run goes on to save_event; a run that halted on a Failed
\* result of crawl, agent_classify or agent_quantify ends at that node and has
\* not executed save_event.
FailSoftValidation ==
    /\ (pc \in {"merge", "route", "finally"} /\ ValidatorReportedFailure)
          => /\ result.status = SUCCESS
             /\ result.data["is_valid"] = "False"
             /\ result.data["adjusted_factor_value"]
                   = IF pre_context["factor_value"] = Absent THEN "0"
                     ELSE pre_context["factor_value"]
             /\ pc = "finally" => current_node = "save_event"
    /\ HaltedBeforeValidation
          => /\ Last(execution_log).node_name = final_node
             /\ Last(execution_log).status = FAILED
             /\ \A j \in 1..Len(execution_log) :
                   execution_log[j].node_name # "save_event"

\* C37 witness: agent_quantify wrote factor_value = 0.5, the validator
\* reported a failure, and the run went on to save_event and returned.
FailedValidationSaved ==
    /\ pc = "done" /\ ret.success
    /\ TraceNames(ret.execution_log) = FullPath
    /\ ret.execution_log[5].status = SUCCESS
    /\ ret.context["factor_value"] = "0.5"
    /\ ret.context["is_valid"] = "False"
    /\ ret.context["adjusted_factor_value"] = "0.5"

\* C38 (final_node on routing error): a run that returned reports as
\* final_node the name of the last record of its trace, and the empty string
\* when the trace is empty; when it halted on a successor that is not
\* registered, final_node is the registered node executed last and not the
\* missing name; when the start node itself is not registered, final_node is
\* empty and so is the trace.
FinalNodeOnRoutingError ==
    /\ pc = "done"
          => ret.final_node = IF ret.execution_log = <<>> THEN ""
                              ELSE Last(ret.execution_log).node_name
    /\ (pc = "done" /\ IsSet(current_node) /\ current_node \notin DOMAIN nodes
          /\ executed > 0)
          => /\ ret.final_node \in DOMAIN nodes
             /\ ret.final_node # current_node
             /\ ret.final_node = Last(ret.execution_log).node_name
             /\ Len(ret.execution_log) = executed
    /\ (pc = "done" /\ IsSet(current_node) /\ current_node \notin DOMAIN nodes
          /\ executed = 0)
          => /\ ret.final_node = ""
             /\ ret.execution_log = <<>>

\* C38 witness: two nodes were executed, the successor of the second is not
\* registered, and the run returned with the second node as final_node.
LastExecutedReported ==
    /\ pc = "done" /\ current_node \notin DOMAIN nodes /\ IsSet(current_node)
    /\ Len(ret.execution_log) = 2
    /\ ret.final_node = ret.execution_log[2].node_name
    /\ ret.error = "node " \o current_node \o " does not exist"

\* a run whose start node is not registered returned with an empty final_node
UnregisteredStartReported ==
    /\ pc = "done" /\ current_node = "X" /\ executed = 0
    /\ ret.final_node = "" /\ ret.execution_log = <<>> /\ ~ret.success

----------------------------------------------------------------------------
(* Properties of WorkflowPipeline.register and WorkflowPipeline.set_start *)

\* the start node is unset or registered, and every node is kept under its
\* own name
StartRegistered ==
    /\ start_node = None \/ start_node \in DOMAIN nodes
    /\ \A k \in DOMAIN nodes : nodes[k].name = k

\* what a call of set_start does
SetStartStep ==
    call'.op = "set_start"
        => /\ nodes' = nodes
           /\ IF call'.name \in DOMAIN nodes
              THEN ~call'.raised /\ start_node' = call'.name
              ELSE call'.raised /\ start_node' = start_node

\* what a call of register does
RegisterStep ==
    call'.op = "register"
        => /\ start_node' = start_node
           /\ DOMAIN nodes' = DOMAIN nodes \cup {call'.name}
           /\ nodes'[call'.name] = call'.node
           /\ \A k \in DOMAIN nodes \ {call'.name} : nodes'[k] = nodes[k]

\* C39 (registration guards): set_start with a name that is not registered
\* raises and leaves the start node as it was; after any calls of register
\* and set_start the start node is unset or a key of the node mapping; a node
\* registered under a name already taken replaces the node held there, and
\* the mapping keeps every node under its own name, one node per name.
RegistrationGuards ==
    /\ []StartRegistered
    /\ [][SetStartStep /\ RegisterStep]_vars

\* C39 witness: with A as start node and A registered a second time with
\* other fields, set_start of the unregistered name X raised and A is still
\* the start node.
SetStartRejected ==
    /\ call.op = "set_start" /\ call.raised /\ call.name = "X"
    /\ start_node = "A"
    /\ nodes["A"].retry_count = MaxRetry /\ nodes["A"].next_node = "A"
    /\ Cardinality(DOMAIN nodes) = 2

----------------------------------------------------------------------------
(* Properties of the worker threads *)

AllDone == \A t \in Threads : tpc[t] = "done"

\* C22 (context isolation): under every interleaving the context and the
\* execution_log of the call a thread makes hold only what that thread wrote.
ContextIsolation ==
    \A c \in Threads :
        /\ tctx[c] \subseteq {c}
        /\ \A j \in 1..Len(tlog[c]) : tlog[c][j] = c

\* C22 witness: every thread has finished, thread 2 having reached the append
\* to daily_results before thread 1, and each context and trace holds the
\* writes of its own thread.
IsolatedWhenInterleaved ==
    /\ AllDone
    /\ collected # <<>> /\ collected[1] = 2
    /\ \A t \in Threads : tctx[t] = {t} /\ tlog[t] = <<t>>

\* C23 (shared-resource serialization): a thread that is in the middle of an
\* access to the console, the repository or daily_results holds a lock, and
\* no two threads are in the middle of an access to the same resource.
SharedSerialized ==
    /\ \A t \in Threads :
          Accessing(tpc[t]) # None
             => (LockHeldAt(tpc[t]) # None /\ lock[LockHeldAt(tpc[t])] = t)
    /\ \A t1, t2 \in Threads :
          (t1 # t2 /\ Accessing(tpc[t1]) # None)
             => Accessing(tpc[t1]) # Accessing(tpc[t2])

\* C24 (concurrent upsert): no save_event call fails, the table never holds
\* two rows of one news_id, and when every thread has finished the table
\* holds one row for the news_id of every item.
ConcurrentUpsert ==
    /\ \A n \in NewsIds : store[n] <= 1
    /\ \A t \in Threads : tsaved[t] # "failed"
    /\ AllDone => \A t \in Threads : store[titem[t]] = 1

====
